---- MODULE Spec2Model ----
(***************************************************************************)
(* flamingpy/simulations.py: the Monte Carlo trial engine ec_monte_carlo   *)
(* and the script entry point that runs it once and appends one row to    *)
(* the results ledger sims_results.csv.                                    *)
(*                                                                         *)
(* Python namespaces (the locals of ec_monte_carlo, the module globals of  *)
(* the script) are records whose domain grows as names are bound, so that  *)
(* reading a name that was never bound is visible as a NameError.          *)
(* External collaborators (CVLayer, apply_noise, measure_hom,              *)
(* reduce_macro_and_simulate, correct) are instrumented stubs: each call   *)
(* is counted, its arguments are recorded, it may raise, and correct       *)
(* returns a boolean verdict chosen by the stub.                           *)
(***************************************************************************)
EXTENDS Integers, Sequences, FiniteSets, TLC

\* ---------------------------------------------------------------- bounds
MaxTrials == 3
MaxRuns == 2

\* ------------------------------------------------------- input value sets
\* Python's None; the passive bundle is a 4-tuple, so the two never coincide.
None == << >>

Deltas == {"0.01", "0.1"}
PSwaps == {"0", "0.5"}
Times == {"09:05:07", "23:59:59"}

\* The code object handed to ec_monte_carlo by a direct caller.
CallerCode == [graph |-> "code.graph", all_syndrome_inds |-> "code.all_syndrome_inds"]
\* The passive bundle a direct caller hands over.
CallerBundle == <<"RHG_macro", "RHG_lattice", "CVRHG_reduced", "bs_network">>

\* Behaviours of the stub standing for flamingpy.decoders.decoder.correct.
Verdicts(s) ==
    IF s = "always_success" THEN {TRUE}
    ELSE IF s = "always_failure" THEN {FALSE}
    ELSE BOOLEAN

\* Command lines: sys.argv[1:], empty when the script is run without arguments.
PassiveArgs == {"True", "False", ""}
ArgTrials == {0, 2}
CommandLines ==
    {<< >>} \cup
    { <<2, "primal", b, "0.01", "0.5", t, p>> :
        b \in {"open", "periodic"}, t \in ArgTrials, p \in PassiveArgs }

VARIABLES
    mpc,        \* position of the script (__main__ block); "none": no script, direct call
    globals,    \* module namespace of the script
    pc,         \* position inside ec_monte_carlo; "idle": not called
    frame,      \* local namespace of ec_monte_carlo
    retval,     \* << >> until ec_monte_carlo returns, then <<errors>>
    exc,        \* the exception propagating out of the process, NoExc if there is none
    calls,      \* instrumentation: number of calls ec_monte_carlo made to each collaborator
    last_call,  \* instrumentation: the most recent collaborator call and its arguments
    verdicts,   \* instrumentation: how many True / False verdicts correct returned
    stub,       \* behaviour of the correct stub in this run
    engine_calls, \* instrumentation: the argument list of every invocation of ec_monte_carlo
    ledger,     \* the file ./flamingpy/sims_data/sims_results.csv
    writer,     \* the open csv writer of the script: "closed", "x" or "a"
    rows_written, \* instrumentation: data rows written by the current script run
    writes,     \* instrumentation: every data row written to the ledger, in write order
    argv,       \* sys.argv[1:] of the current script run
    runs        \* number of script runs started so far

vars == <<mpc, globals, pc, frame, retval, exc, calls, last_call, verdicts, stub,
          engine_calls, ledger, writer, rows_written, writes, argv, runs>>

Bind(ns, name, v) == (name :> v) @@ ns

NoCalls == [CVLayer |-> 0, apply_noise |-> 0, measure_hom |-> 0,
            reduce_macro_and_simulate |-> 0, correct |-> 0]
NoCall == [fn |-> "none", args |-> << >>]
NoVerdicts == [success |-> 0, failure |-> 0]
NoExc == [type |-> "none", origin |-> "none"]
NoLedger == [exists |-> FALSE, rows |-> << >>]

\* ------------------------------------------------------- ec_monte_carlo

\* Lines 46 and 64: `passive_objects is not None`.
IsPassive(passive_objects) == passive_objects # None

\* Lines 46-60: the configuration built before the loop.
Configure(f) ==
    IF IsPassive(f.passive_objects)
    THEN Bind(Bind(f, "decoder", [outer |-> "MWPM"]),
              "weight_options", [method |-> "blueprint", prob_precomputed |-> TRUE])
    ELSE Bind(Bind(Bind(Bind(f,
              "code_lattice", f.code.graph),
              "cv_noise", [noise |-> "grn", delta |-> f.delta, sampling_order |-> "initial"]),
              "decoder", [inner |-> "basic", outer |-> "MWPM"]),
              "weight_options", [method |-> "blueprint", integer |-> FALSE,
                                 multiplier |-> 1, delta |-> f.delta])

\* Faulty variants of TrialPipeline: the branch re-derived from the running count, and
\* the noisy state constructed once and reused by later iterations.
TrialPipelineRederived(f) ==
    IF IsPassive(f.passive_objects) \/ f.successes > 0 THEN "reduce" ELSE "CVLayer"
TrialPipelineReused(f) ==
    IF IsPassive(f.passive_objects) THEN "reduce"
    ELSE IF "CVRHG" \in DOMAIN f THEN "apply_noise" ELSE "CVLayer"

\* Line 64: the branch taken by one iteration of the loop body.
TrialPipeline(f) == IF IsPassive(f.passive_objects) THEN "reduce" ELSE "CVLayer"

\* Faulty variant of AddResult: a success is counted twice.
AddResultTwice(successes, result) == successes + (IF result THEN 2 ELSE 0)

\* Line 74: successes += result, result a bool.
AddResult(successes, result) == successes + (IF result THEN 1 ELSE 0)

\* Faulty variant of Errors: the success count is returned.
ErrorsAsSuccesses(trials, successes) == successes

\* Line 75: errors = trials - successes.
Errors(trials, successes) == trials - successes

\* The frame of a fresh call ec_monte_carlo(code, trials, delta, p_swap, passive_objects).
NewFrame(code, trials, delta, p_swap, passive_objects) ==
    [code |-> code, trials |-> trials, delta |-> delta, p_swap |-> p_swap,
     passive_objects |-> passive_objects]

\* Faulty variant of Propagate: the exception is swallowed and the loop goes on.
PropagateSwallowed ==
    /\ pc' = "loop"
    /\ exc' = [type |-> "CollaboratorError", origin |-> last_call'.fn]
    /\ mpc' = mpc

\* An uncaught exception leaves ec_monte_carlo and, under the script, ends the process.
Propagate ==
    /\ pc' = "raised"
    /\ exc' = [type |-> "CollaboratorError", origin |-> last_call'.fn]
    /\ mpc' = IF mpc = "none" THEN "none" ELSE "raised"

Called(fn, args) ==
    /\ calls' = [calls EXCEPT ![fn] = @ + 1]
    /\ last_call' = [fn |-> fn, args |-> args]

\* Lines 46-62.
Select ==
    /\ pc = "select"
    /\ frame' = Bind(Bind(Configure(frame), "successes", 0), "range_next", 0)
    /\ pc' = "loop"
    /\ UNCHANGED <<mpc, globals, retval, exc, calls, last_call, verdicts, stub,
                   engine_calls, ledger, writer, rows_written, writes, argv, runs>>

\* Faulty variant of RangeHasNext: the body runs once before the count is tested.
RangeHasNextInclusive(next, trials) == next <= trials

\* Line 63: range(trials) has another index to yield.
RangeHasNext(next, trials) == next < trials

\* Lines 63-64: the range iterator yields the next index or is exhausted.
Loop ==
    /\ pc = "loop"
    /\ IF RangeHasNext(frame.range_next, frame.trials)
       THEN /\ frame' = [frame EXCEPT !.range_next = @ + 1]
            /\ pc' = TrialPipeline(frame)
       ELSE /\ frame' = frame
            /\ pc' = "return"
    /\ UNCHANGED <<mpc, globals, retval, exc, calls, last_call, verdicts, stub,
                   engine_calls, ledger, writer, rows_written, writes, argv, runs>>

\* Faulty variant of ReduceArgs: delta and p_swap change places.
ReduceArgsSwapped(f) == f.passive_objects \o <<f.delta, f.p_swap>>

\* Line 65: reduce_macro_and_simulate(*passive_objects, p_swap, delta).
ReduceArgs(f) == f.passive_objects \o <<f.p_swap, f.delta>>

Reduce ==
    /\ pc = "reduce"
    /\ Called("reduce_macro_and_simulate", ReduceArgs(frame))
    /\ \/ /\ pc' = "correct"
          /\ UNCHANGED <<mpc, exc>>
       \/ Propagate
    /\ UNCHANGED <<globals, frame, retval, verdicts, stub,
                   engine_calls, ledger, writer, rows_written, writes, argv, runs>>

\* Line 68: CVRHG = CVLayer(code_lattice, p_swap=p_swap); every construction
\* yields a new object, identified by its serial number.
NewCVLayer ==
    /\ pc = "CVLayer"
    /\ Called("CVLayer", [lattice |-> frame.code_lattice, p_swap |-> frame.p_swap])
    /\ \/ /\ frame' = Bind(frame, "CVRHG", [obj |-> "CVLayer", serial |-> calls.CVLayer + 1])
          /\ pc' = "apply_noise"
          /\ UNCHANGED <<mpc, exc>>
       \/ /\ Propagate
          /\ frame' = frame
    /\ UNCHANGED <<globals, retval, verdicts, stub,
                   engine_calls, ledger, writer, rows_written, writes, argv, runs>>

\* Line 70: CVRHG.apply_noise(cv_noise).
ApplyNoise ==
    /\ pc = "apply_noise"
    /\ Called("apply_noise", [self |-> frame.CVRHG, model |-> frame.cv_noise])
    /\ \/ /\ pc' = "measure_hom"
          /\ UNCHANGED <<mpc, exc>>
       \/ Propagate
    /\ UNCHANGED <<globals, frame, retval, verdicts, stub,
                   engine_calls, ledger, writer, rows_written, writes, argv, runs>>

\* Line 71: CVRHG.measure_hom("p", code.all_syndrome_inds).
MeasureHom ==
    /\ pc = "measure_hom"
    /\ Called("measure_hom", [self |-> frame.CVRHG, quad |-> "p",
                              inds |-> frame.code.all_syndrome_inds])
    /\ \/ /\ pc' = "correct"
          /\ UNCHANGED <<mpc, exc>>
       \/ Propagate
    /\ UNCHANGED <<globals, frame, retval, verdicts, stub,
                   engine_calls, ledger, writer, rows_written, writes, argv, runs>>

\* Lines 73-74: result = correct(...); successes += result.
Correct ==
    /\ pc = "correct"
    /\ Called("correct", [code |-> frame.code, decoder |-> frame.decoder,
                          weight_options |-> frame.weight_options])
    /\ \/ \E result \in Verdicts(stub) :
             /\ frame' = Bind([frame EXCEPT !.successes = AddResult(@, result)],
                              "result", result)
             /\ verdicts' = IF result
                            THEN [verdicts EXCEPT !.success = @ + 1]
                            ELSE [verdicts EXCEPT !.failure = @ + 1]
             /\ pc' = "loop"
             /\ UNCHANGED <<mpc, exc>>
       \/ /\ Propagate
          /\ UNCHANGED <<frame, verdicts>>
    /\ UNCHANGED <<globals, retval, stub,
                   engine_calls, ledger, writer, rows_written, writes, argv, runs>>

\* Lines 75-76.
Return ==
    /\ pc = "return"
    /\ frame' = Bind(frame, "errors", Errors(frame.trials, frame.successes))
    /\ retval' = <<frame'.errors>>
    /\ pc' = "returned"
    /\ UNCHANGED <<mpc, globals, exc, calls, last_call, verdicts, stub,
                   engine_calls, ledger, writer, rows_written, writes, argv, runs>>

EngineNext ==
    \/ Select
    \/ Loop
    \/ Reduce
    \/ NewCVLayer
    \/ ApplyNoise
    \/ MeasureHom
    \/ Correct
    \/ Return

\* A direct call of ec_monte_carlo, about to execute line 46.
InitCall ==
    /\ mpc = "none"
    /\ globals = << >>
    /\ pc = "select"
    /\ \E t \in 0..MaxTrials, d \in Deltas, p \in PSwaps, po \in {None, CallerBundle} :
          /\ frame = NewFrame(CallerCode, t, d, p, po)
          /\ engine_calls = <<frame>>
    /\ retval = << >>
    /\ exc = NoExc
    /\ calls = NoCalls
    /\ last_call = NoCall
    /\ verdicts = NoVerdicts
    /\ stub = "random"
    /\ ledger = NoLedger
    /\ writer = "closed"
    /\ rows_written = 0
    /\ writes = << >>
    /\ argv = << >>
    /\ runs = 0

\* ------------------------------------------------------- __main__

\* Line 90: argparse applies type=bool to the argument string, and bool(s)
\* is True for every non-empty string.
ParseBool(s) == s # ""

\* Lines 105-113: the values used when no argument is given.
DefaultTrials == 100
Defaults ==
    [distance |-> 2, ec |-> "primal", boundaries |-> "open", delta |-> "0.01",
     p_swap |-> "0.5", trials |-> DefaultTrials, passive |-> TRUE]

\* Lines 84-101: the seven positional arguments, in order.
Parsed(args) ==
    [distance |-> args[1], ec |-> args[2], boundaries |-> args[3], delta |-> args[4],
     p_swap |-> args[5], trials |-> args[6], passive |-> ParseBool(args[7])]

\* Lines 80-113.
ParseArgs ==
    /\ mpc = "start"
    /\ globals' = IF Len(argv) # 0 THEN Parsed(argv) ELSE Defaults
    /\ mpc' = "build_code"
    /\ UNCHANGED <<pc, frame, retval, exc, calls, last_call, verdicts, stub,
                   engine_calls, ledger, writer, rows_written, writes, argv, runs>>

\* Lines 118-120.
BuildCode ==
    /\ mpc = "build_code"
    /\ globals' = Bind(Bind(globals,
            "RHG_code", [graph |-> "RHG_lattice",
                         all_syndrome_inds |-> "RHG_code.all_syndrome_inds"]),
            "RHG_lattice", "RHG_lattice")
    /\ mpc' = "passive_branch"
    /\ UNCHANGED <<pc, frame, retval, exc, calls, last_call, verdicts, stub,
                   engine_calls, ledger, writer, rows_written, writes, argv, runs>>

\* Line 124: RHG_lattice.macronize(pad_boundary=pad_bool).
Macronize(pad_boundary) == IF pad_boundary THEN "RHG_macro(pad)" ELSE "RHG_macro(no pad)"

\* Lines 122-132: the names bound when the passive flag is true.
PassiveSetup(g) ==
    LET pad_bool == g.boundaries # "periodic"
        g1 == Bind(g, "pad_bool", pad_bool)
        g2 == Bind(g1, "RHG_macro", Macronize(pad_bool))
        g3 == Bind(g2, "CVRHG_reduced", "CVRHG_reduced")
        g4 == Bind(g3, "bs_network", "BS_network(4)")
    IN  Bind(g4, "passive_objects",
             <<g4.RHG_macro, g4.RHG_lattice, g4.CVRHG_reduced, g4.bs_network>>)

\* Lines 121-132: nothing is bound when the flag is false.
PassiveBranch ==
    /\ mpc = "passive_branch"
    /\ globals' = IF globals.passive THEN PassiveSetup(globals) ELSE globals
    /\ mpc' = "call"
    /\ UNCHANGED <<pc, frame, retval, exc, calls, last_call, verdicts, stub,
                   engine_calls, ledger, writer, rows_written, writes, argv, runs>>

\* Line 134: the names read to build the argument list.
CallNames == {"RHG_code", "trials", "delta", "p_swap", "passive_objects"}

\* Line 134, evaluation of the arguments and entry into ec_monte_carlo; reading
\* a name that is not bound raises NameError.
CallEngine ==
    /\ mpc = "call"
    /\ IF CallNames \subseteq DOMAIN globals
       THEN /\ frame' = NewFrame(globals.RHG_code, globals.trials, globals.delta,
                                 globals.p_swap, globals.passive_objects)
            /\ engine_calls' = Append(engine_calls, frame')
            /\ pc' = "select"
            /\ mpc' = "in_engine"
            /\ exc' = exc
       ELSE /\ exc' = [type |-> "NameError", origin |-> "__main__"]
            /\ mpc' = "raised"
            /\ UNCHANGED <<frame, engine_calls, pc>>
    /\ UNCHANGED <<globals, retval, calls, last_call, verdicts, stub,
                   ledger, writer, rows_written, writes, argv, runs>>

\* Line 134, the assignment errors = <returned value>.
AssignErrors ==
    /\ mpc = "in_engine"
    /\ pc = "returned"
    /\ globals' = Bind(globals, "errors", retval[1])
    /\ mpc' = "open"
    /\ UNCHANGED <<pc, frame, retval, exc, calls, last_call, verdicts, stub,
                   engine_calls, ledger, writer, rows_written, writes, argv, runs>>

\* Lines 143-152.
HEADER == <<"distance", "ec", "boundaries", "delta", "p_swap", "errors_py", "trials",
            "current_time">>

\* Faulty variant of Opened: the header is written whatever the mode.
OpenedHeaderAlways(l) == [exists |-> TRUE, rows |-> l.rows \o <<HEADER>>]

\* Lines 139-157: mode "x" creates the file and the header is written; if the
\* file exists, FileExistsError is caught and the file is opened in mode "a".
OpenMode(l) == IF l.exists THEN "a" ELSE "x"

Opened(l) == IF OpenMode(l) = "x" THEN [exists |-> TRUE, rows |-> <<HEADER>>] ELSE l

OpenLedger ==
    /\ mpc = "open"
    /\ globals' = Bind(globals, "file_name", "./flamingpy/sims_data/sims_results.csv")
    /\ writer' = OpenMode(ledger)
    /\ ledger' = Opened(ledger)
    /\ mpc' = "write_row"
    /\ UNCHANGED <<pc, frame, retval, exc, calls, last_call, verdicts, stub,
                   engine_calls, rows_written, writes, argv, runs>>

\* Line 159: csv.writer writes str(v) for an int v; delta and p_swap are held
\* as the text of their float value and the other fields are strings already.
Str(v) == ToString(v)

\* Faulty variant of Row: the error count and the trial count change places.
RowSwapped(g) == <<Str(g.distance), g.ec, g.boundaries, g.delta, g.p_swap, Str(g.trials),
                   Str(g.errors), g.current_time>>

\* Line 159: the data row.
Row(g) == <<Str(g.distance), g.ec, g.boundaries, g.delta, g.p_swap, Str(g.errors),
            Str(g.trials), g.current_time>>

\* Lines 158-159.
WriteRow ==
    /\ mpc = "write_row"
    /\ \E now \in Times : globals' = Bind(globals, "current_time", now)
    /\ ledger' = [ledger EXCEPT !.rows = Append(@, Row(globals'))]
    /\ rows_written' = rows_written + 1
    /\ writes' = Append(writes, Row(globals'))
    /\ mpc' = "close"
    /\ UNCHANGED <<pc, frame, retval, exc, calls, last_call, verdicts, stub,
                   engine_calls, writer, argv, runs>>

\* Line 160.
CloseLedger ==
    /\ mpc = "close"
    /\ writer' = "closed"
    /\ mpc' = "done"
    /\ UNCHANGED <<globals, pc, frame, retval, exc, calls, last_call, verdicts, stub,
                   engine_calls, ledger, rows_written, writes, argv, runs>>

\* Behaviours of the correct stub under the script.
ScriptStubs == {"always_success", "always_failure"}

\* A fresh process running the script; only the ledger survives from earlier runs.
Process ==
    /\ mpc' = "start"
    /\ globals' = << >>
    /\ pc' = "idle"
    /\ frame' = << >>
    /\ retval' = << >>
    /\ exc' = NoExc
    /\ calls' = NoCalls
    /\ last_call' = NoCall
    /\ verdicts' = NoVerdicts
    /\ stub' \in ScriptStubs
    /\ engine_calls' = << >>
    /\ writer' = "closed"
    /\ rows_written' = 0
    /\ argv' \in CommandLines

\* The script is run again after the previous run has ended.
Restart ==
    /\ mpc \in {"done", "raised"}
    /\ runs < MaxRuns
    /\ Process
    /\ runs' = runs + 1
    /\ UNCHANGED <<ledger, writes>>

\* The first run of the script; the ledger does not exist yet.
InitMain ==
    /\ mpc = "start"
    /\ globals = << >>
    /\ pc = "idle"
    /\ frame = << >>
    /\ retval = << >>
    /\ exc = NoExc
    /\ calls = NoCalls
    /\ last_call = NoCall
    /\ verdicts = NoVerdicts
    /\ stub \in ScriptStubs
    /\ engine_calls = << >>
    /\ ledger = NoLedger
    /\ writer = "closed"
    /\ rows_written = 0
    /\ writes = << >>
    /\ argv \in CommandLines
    /\ runs = 1

Init == InitCall \/ InitMain

Next ==
    \/ EngineNext
    \/ ParseArgs
    \/ BuildCode
    \/ PassiveBranch
    \/ CallEngine
    \/ AssignErrors
    \/ OpenLedger
    \/ WriteRow
    \/ CloseLedger
    \/ Restart

Spec == InitCall /\ [][EngineNext]_vars

SpecMain == Init /\ [][Next]_vars

\* ------------------------------------------------------- properties

\* The arguments of the current invocation of ec_monte_carlo, as passed.
Entry == engine_calls[Len(engine_calls)]
Invoked == Len(engine_calls) > 0 /\ pc # "idle"
Configured == Invoked /\ "successes" \in DOMAIN frame
TrialsDone == verdicts.success + verdicts.failure

\* C1: ec_monte_carlo returns exactly the number of non-success verdicts among
\* the T verdicts it obtained, T minus the number of successes, wherever the
\* successes fall in the sequence and in either pipeline.
C1_ReturnsFailureCount ==
    pc = "returned" =>
        /\ TrialsDone = Entry.trials
        /\ retval = <<verdicts.failure>>
        /\ retval = <<Entry.trials - verdicts.success>>

C1_Witness ==
    /\ pc = "returned"
    /\ ~IsPassive(Entry.passive_objects)
    /\ Entry.trials >= 3
    /\ verdicts.success = 1
    /\ frame.result = TRUE
    /\ retval = <<Entry.trials - 1>>

\* C2: the returned error count lies in 0..trials, and after every completed
\* trial trials_done - successes lies in 0..trials_done.
C2_ErrorBounds ==
    /\ pc = "returned" => (0 <= retval[1] /\ retval[1] <= Entry.trials)
    /\ Configured =>
          (0 <= TrialsDone - frame.successes /\ TrialsDone - frame.successes <= TrialsDone)

C2_Witness ==
    /\ pc = "returned"
    /\ Entry.trials >= 2
    /\ retval = <<Entry.trials>>
    /\ TrialsDone - frame.successes = TrialsDone

\* C3: with trials = 0 the call returns 0 and no collaborator is ever invoked,
\* in the active and in the passive pipeline.
C3_ZeroTrials ==
    (Invoked /\ Entry.trials = 0) =>
        /\ calls = NoCalls
        /\ last_call = NoCall
        /\ exc = NoExc
        /\ pc \in {"select", "loop", "return", "returned"}
        /\ pc = "returned" => retval = <<0>>

C3_Witness ==
    /\ pc = "returned"
    /\ Entry.trials = 0
    /\ IsPassive(Entry.passive_objects)
    /\ retval = <<0>>
    /\ calls = NoCalls

\* C4: the pipeline is fixed by the presence of the bundle at entry and is the
\* same in every trial: with a bundle no CVLayer is constructed and apply_noise
\* and measure_hom are never called, without one the reducer is never called,
\* and every trial begun has entered exactly one of the two pipelines.
C4_PipelineExclusive ==
    Invoked =>
        /\ frame.passive_objects = Entry.passive_objects
        /\ IsPassive(Entry.passive_objects) =>
              /\ calls.CVLayer = 0 /\ calls.apply_noise = 0 /\ calls.measure_hom = 0
              /\ pc \notin {"CVLayer", "apply_noise", "measure_hom"}
        /\ ~IsPassive(Entry.passive_objects) =>
              /\ calls.reduce_macro_and_simulate = 0
              /\ pc # "reduce"
        /\ Configured =>
              calls.reduce_macro_and_simulate + calls.CVLayer
                 = frame.range_next - (IF pc \in {"reduce", "CVLayer"} THEN 1 ELSE 0)

C4_Witness ==
    /\ pc = "returned"
    /\ IsPassive(Entry.passive_objects)
    /\ calls.reduce_macro_and_simulate >= 2
    /\ calls.CVLayer = 0

TotalCalls(c) ==
    c.CVLayer + c.apply_noise + c.measure_hom + c.reduce_macro_and_simulate + c.correct

\* C5: a collaborator that raises aborts the run: the exception leaves the
\* engine as raised, nothing is returned, the failing call is the last call
\* made, and no step follows it (no retry, no later trial).
C5_FailFast ==
    /\ [](/\ (exc # NoExc) <=> (pc = "raised")
          /\ pc = "raised" =>
                /\ exc = [type |-> "CollaboratorError", origin |-> last_call.fn]
                /\ retval = << >>
                /\ "errors" \notin DOMAIN frame)
    /\ [][/\ pc # "raised"
          /\ pc' = "raised" => TotalCalls(calls') = TotalCalls(calls) + 1]_vars

C5_Witness ==
    /\ pc = "raised"
    /\ exc.origin = "measure_hom"
    /\ calls.correct >= 1
    /\ calls.measure_hom = calls.correct + 1
    /\ frame.range_next < Entry.trials

\* C8: in the active pipeline each trial constructs a new CVLayer on the
\* code's graph with p_swap, then calls apply_noise, measure_hom on the code's
\* syndrome indices and correct, in that order and without overlap between
\* trials; a run that completes has made each of the four calls trials times.
C8_ActiveOrder ==
    (Configured /\ ~IsPassive(Entry.passive_objects)) =>
        /\ calls.CVLayer >= calls.apply_noise
        /\ calls.apply_noise >= calls.measure_hom
        /\ calls.measure_hom >= calls.correct
        /\ calls.correct >= calls.CVLayer - 1
        /\ calls.CVLayer = frame.range_next - (IF pc = "CVLayer" THEN 1 ELSE 0)
        /\ pc \in {"apply_noise", "measure_hom", "correct"} =>
              frame.CVRHG = [obj |-> "CVLayer", serial |-> frame.range_next]
        /\ last_call.fn = "CVLayer" =>
              last_call.args = [lattice |-> Entry.code.graph, p_swap |-> Entry.p_swap]
        /\ last_call.fn = "apply_noise" =>
              last_call.args = [self |-> [obj |-> "CVLayer", serial |-> calls.CVLayer],
                                model |-> [noise |-> "grn", delta |-> Entry.delta,
                                           sampling_order |-> "initial"]]
        /\ last_call.fn = "measure_hom" =>
              last_call.args = [self |-> [obj |-> "CVLayer", serial |-> calls.CVLayer],
                                quad |-> "p", inds |-> Entry.code.all_syndrome_inds]
        /\ last_call.fn = "correct" =>
              last_call.args = [code |-> Entry.code,
                                decoder |-> [inner |-> "basic", outer |-> "MWPM"],
                                weight_options |-> [method |-> "blueprint",
                                                    integer |-> FALSE, multiplier |-> 1,
                                                    delta |-> Entry.delta]]
        /\ pc \in {"loop", "return", "returned"} =>
              /\ calls.apply_noise = calls.CVLayer
              /\ calls.measure_hom = calls.CVLayer
              /\ calls.correct = calls.CVLayer
        /\ pc = "returned" => calls.CVLayer = Entry.trials

C8_Witness ==
    /\ pc = "returned"
    /\ ~IsPassive(Entry.passive_objects)
    /\ Entry.trials >= 2
    /\ calls.correct = Entry.trials
    /\ frame.CVRHG.serial = Entry.trials

\* C9: in the passive pipeline each trial makes one reducer call, on the four
\* components of the bundle in their order followed by p_swap and delta, and
\* then one decoder call with the configuration built before the loop; the
\* bundle held by the engine stays the one that was passed in.
C9_PassiveTrial ==
    (Configured /\ IsPassive(Entry.passive_objects)) =>
        /\ frame.passive_objects = Entry.passive_objects
        /\ calls.reduce_macro_and_simulate >= calls.correct
        /\ calls.correct >= calls.reduce_macro_and_simulate - 1
        /\ calls.reduce_macro_and_simulate
              = frame.range_next - (IF pc = "reduce" THEN 1 ELSE 0)
        /\ last_call.fn = "reduce_macro_and_simulate" =>
              last_call.args = <<Entry.passive_objects[1], Entry.passive_objects[2],
                                 Entry.passive_objects[3], Entry.passive_objects[4],
                                 Entry.p_swap, Entry.delta>>
        /\ last_call.fn = "correct" =>
              last_call.args = [code |-> Entry.code,
                                decoder |-> [outer |-> "MWPM"],
                                weight_options |-> [method |-> "blueprint",
                                                    prob_precomputed |-> TRUE]]
        /\ pc \in {"loop", "return", "returned"} =>
              calls.correct = calls.reduce_macro_and_simulate
        /\ pc = "returned" => calls.reduce_macro_and_simulate = Entry.trials

C9_Witness ==
    /\ pc = "correct"
    /\ IsPassive(Entry.passive_objects)
    /\ last_call.fn = "reduce_macro_and_simulate"
    /\ calls.reduce_macro_and_simulate = 2
    /\ calls.correct = 1

\* C6: with a single writer, the first write creates the ledger with one
\* header row and one data row, every later write appends one data row and no
\* header, so after n >= 1 completed writes the ledger is the header row
\* followed by the n data rows in write order.
C6_AppendOrCreate ==
    /\ ledger.exists =>
          /\ ledger.rows = <<HEADER>> \o writes
          /\ \A i \in 2..Len(ledger.rows) : ledger.rows[i] # HEADER
    /\ writer = "closed" => (ledger.exists <=> Len(writes) >= 1)
    /\ writer = "x" => Len(writes) = rows_written
    /\ writer = "a" => Len(writes) > rows_written

C6_Witness ==
    /\ mpc = "done"
    /\ Len(writes) = 2
    /\ writes[1] # writes[2]
    /\ ledger.rows = <<HEADER, writes[1], writes[2]>>

\* C7 as stated: the header is distance, ec, boundaries, delta, p_swap, errors,
\* trials, current_time and every data row carries the eight fields in that
\* order.
C7_HeaderAsStated ==
    ledger.exists =>
        /\ ledger.rows[1] = <<"distance", "ec", "boundaries", "delta", "p_swap", "errors",
                              "trials", "current_time">>
        /\ mpc \in {"close", "done"} =>
              ledger.rows[Len(ledger.rows)] =
                 <<ToString(globals.distance), globals.ec, globals.boundaries,
                   globals.delta, globals.p_swap, ToString(retval[1]),
                   ToString(globals.trials), globals.current_time>>

\* C7, amended: the header is distance, ec, boundaries, delta, p_swap,
\* errors_py, trials, current_time and every data row carries distance, ec,
\* boundaries, delta, p_swap, the error count returned by the engine, the trial
\* count and the timestamp in that column order.
C7_HeaderAndRow ==
    ledger.exists =>
        /\ ledger.rows[1] = <<"distance", "ec", "boundaries", "delta", "p_swap",
                              "errors_py", "trials", "current_time">>
        /\ \A i \in 1..Len(ledger.rows) : Len(ledger.rows[i]) = 8
        /\ mpc \in {"close", "done"} =>
              ledger.rows[Len(ledger.rows)] =
                 <<ToString(globals.distance), globals.ec, globals.boundaries,
                   globals.delta, globals.p_swap, ToString(retval[1]),
                   ToString(globals.trials), globals.current_time>>

C7_Witness ==
    /\ mpc = "done"
    /\ Len(ledger.rows) = 2
    /\ Len(argv) = 7
    /\ ledger.rows[2] = <<"2", "primal", "periodic", "0.01", "0.5", "0", "2", "23:59:59">>
    /\ argv = <<2, "primal", "periodic", "0.01", "0.5", 2, "False">>

\* C10: a run of the script invokes the engine exactly once, with the bundle
\* present exactly when the passive flag is true, and writes exactly one row,
\* after the engine has returned; no row is written if the engine does not
\* return.
C10_OneCallOneRow ==
    /\ rows_written > 0 => pc = "returned"
    /\ mpc \in {"done", "raised"} =>
          /\ Len(engine_calls) = 1
          /\ IsPassive(engine_calls[1].passive_objects) <=> globals.passive
          /\ rows_written = (IF pc = "returned" THEN 1 ELSE 0)
====
